---- MODULE Spec2Model ----
(***************************************************************************)
(* The SUMBURST game of src/src/App.tsx (a React component) with its       *)
(* helpers createRow / generateTarget / generateId and the constants of    *)
(* types.ts (src/unnamed/part_000).                                        *)
(*                                                                         *)
(* One action is one event handler (a click, a timer tick) together with   *)
(* the cascade of React effects it triggers: after the handler's state     *)
(* updates React renders, runs the effects ("game over" and "check sum"),  *)
(* applies the updates they queue, renders again, and so on until no       *)
(* effect changes the state.  The states of the model are the settled      *)
(* states between two events.                                              *)
(***************************************************************************)
EXTENDS Integers, Sequences, FiniteSets, TLC

\* ------------------------------------------------------------ constants
GRID_ROWS == 10
GRID_COLS == 6
INITIAL_ROWS == 4
MAX_VALUE == 9
TIME_LIMIT == 10

\* --------------------------------------------------------------- bounds
\* createRow is called at most MaxRows times in a behaviour (it bounds the
\* ids ever generated, GRID_COLS per row).
MaxRows == 6
\* The same bound for the games played to their end.
MaxRowsLong == 14
\* The cells of the board the player clicks: the two leftmost cells of the
\* bottom row and the one above the second.
ClickCells ==
  { <<GRID_ROWS - 1, 0>>, <<GRID_ROWS - 1, 1>>, <<GRID_ROWS - 2, 1>> }

\* The values Math.floor(Math.random() * MAX_VALUE) takes for the six tiles
\* of a row: the draws of the rows startGame creates (top to bottom), and the
\* draws of a row addRow creates.
InitialDraws ==
  { << <<8, 8, 5, 8, 0, 4>>, <<8, 8, 8, 5, 4, 0>>,
       <<8, 6, 5, 8, 0, 4>>, <<2, 8, 8, 5, 4, 0>> >> }
RowDraws == { <<2, 6, 5, 8, 0, 4>> }
\* The values Math.floor(Math.random() * 10) takes in generateTarget.
TargetDraws == {0, 2}

\* The games that reach the second level (ten rows) and are started again:
\* createRow is called at most MaxRowsLevel times, every row holds the
\* values 3, 3, 3, 3, 3, 4 and generateTarget draws 9 (target 19 at level 1: a whole row matches it).
MaxRowsLevel == 14
LevelRow == <<2, 2, 2, 2, 2, 3>>
LevelTargets == {9}

\* One time-mode game without a match: createRow is called at most
\* MaxRowsTime times, generateTarget draws 0 (target 10) and the player
\* clicks the bottom left cell, where the tiles are worth 3.
MaxRowsTime == 10
TimeTargets == {0}
TimeCells == { <<GRID_ROWS - 1, 0>> }

VARIABLES gameState, mode, grid, selectedIds, target, score, level,
          timeLeft, isPaused, highScore,
          nextId,   \* the ids generateId has handed out are 0..nextId-1
          last      \* what the last event did: the outcome of the check-sum
                    \* effect with the state it evaluated, the calls of addRow

vars == <<gameState, mode, grid, selectedIds, target, score, level,
          timeLeft, isPaused, highScore, nextId, last>>

\* ------------------------------------------------------------- helpers
InSeq(x, s) == \E i \in DOMAIN s : s[i] = x

\* Array.prototype.flat of Block[][]: the rows, top to bottom, concatenated.
RECURSIVE FlatFrom(_, _)
FlatFrom(g, r) ==
  IF r \notin DOMAIN g THEN << >> ELSE g[r] \o FlatFrom(g, r + 1)
Flat(g) == FlatFrom(g, 0)

\* ---------------------------------------------------------------- utils
\* createRow(rowIdx): GRID_COLS blocks with fresh ids base, base+1, ...,
\* values draw+1, row rowIdx, col 0..GRID_COLS-1.
createRow(rowIdx, draws, base) ==
  [c \in 1..GRID_COLS |->
     [id |-> base + (c - 1), value |-> draws[c] + 1, row |-> rowIdx, col |-> c - 1]]

\* generateTarget(mode, level) with draw = Math.floor(Math.random() * 10).
generateTarget(m, lvl, draw) == (10 + draw) + (lvl \div 2)

\* ------------------------------------------------------------------ App
\* The component's state as one record (what a render sees).
Cur ==
  [gameState |-> gameState, mode |-> mode, grid |-> grid,
   selectedIds |-> selectedIds, target |-> target, score |-> score,
   level |-> level, timeLeft |-> timeLeft, isPaused |-> isPaused,
   highScore |-> highScore, nextId |-> nextId, last |-> last]

\* Nothing evaluated, no row inserted.
NoEvent == [outcome |-> "none", inserted |-> 0, before |-> << >>]

\* startGame(selectedMode): empty rows, the bottom INITIAL_ROWS rows filled.
startGame(s, selectedMode, draws, tdraw) ==
  LET first == GRID_ROWS - INITIAL_ROWS
      initialGrid ==
        [r \in 0..(GRID_ROWS - 1) |->
           IF r < first THEN << >>
           ELSE createRow(r, draws[r - first + 1],
                          s.nextId + (r - first) * GRID_COLS)]
  IN [s EXCEPT !.grid = initialGrid,
               !.mode = selectedMode,
               !.target = generateTarget(selectedMode, 1, tdraw),
               !.score = 0,
               !.level = 1,
               !.timeLeft = TIME_LIMIT,
               !.selectedIds = << >>,
               !.gameState = "playing",
               !.isPaused = FALSE,
               !.nextId = s.nextId + INITIAL_ROWS * GRID_COLS]

\* A changed updater: what row 0 held stays on it.
shiftUpKeepingTop(prevGrid, draws, base) ==
  [r \in 0..(GRID_ROWS - 1) |->
     IF r = 0
     THEN prevGrid[0] \o [i \in DOMAIN prevGrid[1] |-> [prevGrid[1][i] EXCEPT !.row = 0]]
     ELSE IF r < GRID_ROWS - 1
     THEN [i \in DOMAIN prevGrid[r + 1] |-> [prevGrid[r + 1][i] EXCEPT !.row = r]]
     ELSE createRow(GRID_ROWS - 1, draws, base)]

\* A changed updater: the tiles keep the row they were created with.
shiftUpKeepingRow(prevGrid, draws, base) ==
  [r \in 0..(GRID_ROWS - 1) |->
     IF r < GRID_ROWS - 1 THEN prevGrid[r + 1]
     ELSE createRow(GRID_ROWS - 1, draws, base)]

\* The setGrid updater of addRow.
shiftUp(prevGrid, draws, base) ==
  [r \in 0..(GRID_ROWS - 1) |->
     IF r < GRID_ROWS - 1
     THEN [i \in DOMAIN prevGrid[r + 1] |-> [prevGrid[r + 1][i] EXCEPT !.row = r]]
     ELSE createRow(GRID_ROWS - 1, draws, base)]

\* addRow(): shift all rows up, a new row at the bottom, the timer reset.
addRow(s, draws) ==
  [s EXCEPT !.grid = shiftUp(s.grid, draws, s.nextId),
            !.timeLeft = TIME_LIMIT,
            !.nextId = s.nextId + GRID_COLS,
            !.last.inserted = s.last.inserted + 1]

\* A changed updater: the id is appended whether selected or not.
appendId(prev, id) == Append(prev, id)

\* prev.includes(id) ? prev.filter(x => x !== id) : [...prev, id]
toggleIds(prev, id) ==
  IF InSeq(id, prev) THEN SelectSeq(prev, LAMBDA x : x # id)
  ELSE Append(prev, id)

\* A changed handler: the phase of the game is not looked at.
toggleBlockAnyPhase(s, id) ==
  IF s.isPaused THEN s
  ELSE [s EXCEPT !.selectedIds = toggleIds(s.selectedIds, id)]

\* A changed handler: the pause flag is not looked at.
toggleBlockPaused(s, id) ==
  IF s.gameState # "playing" THEN s
  ELSE [s EXCEPT !.selectedIds = toggleIds(s.selectedIds, id)]

\* toggleBlock(block)
toggleBlock(s, id) ==
  IF s.gameState # "playing" \/ s.isPaused THEN s
  ELSE [s EXCEPT !.selectedIds = toggleIds(s.selectedIds, id)]

\* currentSum: the values of the grid's blocks whose id is selected.
RECURSIVE sumSelected(_, _)
sumSelected(blocks, sel) ==
  IF blocks = << >> THEN 0
  ELSE (IF InSeq(Head(blocks).id, sel) THEN Head(blocks).value ELSE 0)
       + sumSelected(Tail(blocks), sel)
currentSum(g, sel) == sumSelected(Flat(g), sel)

\* A changed sort: the blocks stay in the order of the flattened grid.
asFlattened(blocks) == blocks

\* colBlocks.sort((a, b) => b.row - a.row): a stable sort, rows descending.
RECURSIVE insertByRow(_, _)
insertByRow(b, sorted) ==
  IF sorted = << >> THEN <<b>>
  ELSE IF Head(sorted).row - b.row > 0 \/ Head(sorted).row = b.row
       THEN <<Head(sorted)>> \o insertByRow(b, Tail(sorted))
       ELSE <<b>> \o sorted
RECURSIVE sortByRowDesc(_)
sortByRowDesc(blocks) ==
  IF blocks = << >> THEN << >>
  ELSE insertByRow(blocks[Len(blocks)], sortByRowDesc(SubSeq(blocks, 1, Len(blocks) - 1)))

\* columns[c]: the blocks with col = c, in the order of the flattened grid.
column(blocks, c) == SelectSeq(blocks, LAMBDA b : b.col = c)

\* Row newRow of finalGrid after .filter(b => b): for each column, left to
\* right, the block the column placed at newRow (its i-th from the bottom,
\* i = GRID_ROWS - 1 - newRow), if it has one.
RECURSIVE finalRow(_, _, _)
finalRow(blocks, newRow, c) ==
  IF c >= GRID_COLS THEN << >>
  ELSE LET colBlocks == sortByRowDesc(column(blocks, c))
           i == GRID_ROWS - 1 - newRow
       IN (IF i < Len(colBlocks)
           THEN << [colBlocks[i + 1] EXCEPT !.row = newRow, !.col = c] >>
           ELSE << >>)
          \o finalRow(blocks, newRow, c + 1)

\* A changed updater: the selected blocks are removed and nothing falls.
removeOnly(prevGrid, sel) ==
  [r \in DOMAIN prevGrid |-> SelectSeq(prevGrid[r], LAMBDA b : ~InSeq(b.id, sel))]

\* The setGrid updater of the check-sum effect: remove the selected blocks,
\* then let the rest fall within their columns.
removeAndFall(prevGrid, sel) ==
  LET newGrid == [r \in DOMAIN prevGrid |->
                    SelectSeq(prevGrid[r], LAMBDA b : ~InSeq(b.id, sel))]
      rest == Flat(newGrid)
  IN [r \in 0..(GRID_ROWS - 1) |-> finalRow(rest, r, 0)]

\* A changed award: one tile too few is counted.
awardOneLess(t, clearedCount) == t * (clearedCount - 1)

\* setScore(s => s + (target * clearedCount))
award(t, clearedCount) == t * clearedCount

\* What the render that runs the check-sum effect shows.
View(s) ==
  [grid |-> s.grid, selectedIds |-> s.selectedIds, target |-> s.target,
   score |-> s.score, level |-> s.level, timeLeft |-> s.timeLeft]

\* A changed branch: a row is added in both modes.
moveOnAddingRow(m, cleared, draws) == addRow(cleared, draws)

\* if (mode === 'classic') addRow(); else setTimeLeft(TIME_LIMIT);
moveOn(m, cleared, draws) ==
  IF m = "classic" THEN addRow(cleared, draws)
  ELSE [cleared EXCEPT !.timeLeft = TIME_LIMIT]

\* A changed test: every match raises the level.
levelUpAlways(s, moved) == [moved EXCEPT !.level = s.level + 1]

\* if (score > level * 500) setLevel(l => l + 1), with the score and the
\* level of the render s.
levelUp(s, moved) ==
  IF s.score > s.level * 500 THEN [moved EXCEPT !.level = s.level + 1] ELSE moved

\* The branch "Success!" of the check-sum effect.
matched(s, draws, tdraw) ==
  LET clearedCount == Len(s.selectedIds)
      cleared == [s EXCEPT !.score = s.score + award(s.target, clearedCount),
                           !.grid = removeAndFall(s.grid, s.selectedIds),
                           !.selectedIds = << >>,
                           !.target = generateTarget(s.mode, s.level, tdraw),
                           !.last = [outcome |-> "success", inserted |-> 0,
                                     before |-> View(s)]]
  IN levelUp(s, moveOn(s.mode, cleared, draws))

\* A changed branch: a failure costs a point.
failedWithPenalty(s) ==
  [s EXCEPT !.selectedIds = << >>,
            !.score = IF s.score > 0 THEN s.score - 1 ELSE 0,
            !.timeLeft = 1,
            !.last = [outcome |-> "overflow", inserted |-> 0, before |-> View(s)]]

\* The branch "Failed - clear selection" of the check-sum effect.
failed(s) ==
  [s EXCEPT !.selectedIds = << >>,
            !.last = [outcome |-> "overflow", inserted |-> 0, before |-> View(s)]]

\* The check-sum effect, run in a render that shows s.
checkSumEffect(s, draws, tdraw) ==
  LET sum == currentSum(s.grid, s.selectedIds) IN
  IF sum = s.target /\ s.target > 0 THEN matched(s, draws, tdraw)
  ELSE IF sum > s.target THEN failed(s)
  ELSE s

\* A changed test: the row below the topmost one is looked at.
secondRowOccupied(g) == 1 \in DOMAIN g /\ g[1] # << >>

\* grid[0]?.some(b => b)
topRowOccupied(g) == 0 \in DOMAIN g /\ g[0] # << >>

\* A changed callback: the high score is left as it is.
gameOverUnlatched(s, t) == [t EXCEPT !.gameState = "gameover"]

\* gameOver(), called by the game-over effect in a render that shows s.
gameOver(s, t) ==
  [t EXCEPT !.gameState = "gameover",
            !.highScore = IF s.score > s.highScore THEN s.score ELSE @]

\* Changed effects: the game-over effect is left out.
runCheckSumOnly(s, draws, tdraw) == checkSumEffect(s, draws, tdraw)

\* The effects of one render, in the order the component declares them:
\* both read the rendered state s, their updates are applied together.
runEffects(s, draws, tdraw) ==
  LET t == checkSumEffect(s, draws, tdraw)
  IN IF s.gameState = "playing" /\ topRowOccupied(s.grid)
     THEN gameOver(s, t)
     ELSE t

\* Render and run the effects until nothing changes.
RECURSIVE settle(_, _, _)
settle(s, draws, tdraw) ==
  LET t == runEffects(s, draws, tdraw)
  IN IF t = s THEN s ELSE settle(t, draws, tdraw)

\* A changed callback: the countdown starts again without a new row.
tickNoRow(s, draws) ==
  IF s.timeLeft <= 1
  THEN [s EXCEPT !.timeLeft = TIME_LIMIT]
  ELSE [s EXCEPT !.timeLeft = s.timeLeft - 1]

\* A changed callback: the row comes when the timer has shown 0.
tickLate(s, draws) ==
  IF s.timeLeft <= 0
  THEN [addRow(s, draws) EXCEPT !.timeLeft = TIME_LIMIT]
  ELSE [s EXCEPT !.timeLeft = s.timeLeft - 1]

\* The callback of the timer effect's setInterval.
tick(s, draws) ==
  IF s.timeLeft <= 1
  THEN [addRow(s, draws) EXCEPT !.timeLeft = TIME_LIMIT]
  ELSE [s EXCEPT !.timeLeft = s.timeLeft - 1]

\* -------------------------------------------------------- state machine
Init ==
  /\ gameState = "menu"
  /\ mode = "classic"
  /\ grid = << >>
  /\ selectedIds = << >>
  /\ target = 0
  /\ score = 0
  /\ level = 1
  /\ timeLeft = TIME_LIMIT
  /\ isPaused = FALSE
  /\ highScore = 0
  /\ nextId = 0
  /\ last = NoEvent

\* The next state is record t, provided createRow has been called at most
\* cap times.
Becomes(t, cap) ==
  /\ t.nextId <= cap * GRID_COLS
  /\ gameState' = t.gameState
  /\ mode' = t.mode
  /\ grid' = t.grid
  /\ selectedIds' = t.selectedIds
  /\ target' = t.target
  /\ score' = t.score
  /\ level' = t.level
  /\ timeLeft' = t.timeLeft
  /\ isPaused' = t.isPaused
  /\ highScore' = t.highScore
  /\ nextId' = t.nextId
  /\ last' = t.last

\* The blocks the board shows on these cells (grid.map(row => row.map(...))).
ShownOn(cells) ==
  UNION {{grid[r][i] : i \in {j \in DOMAIN grid[r] : <<r, grid[r][j].col>> \in cells}} :
         r \in DOMAIN grid}

\* CLASSIC MODE / TIME ATTACK in the menu, TRY AGAIN in the game-over modal.
StartGameOf(modes, initial, targets, cap) ==
  \E m \in modes, draws \in initial, tdraw \in targets :
    /\ \/ gameState = "menu"
       \/ gameState = "gameover" /\ m = mode
    /\ \E t \in {settle(startGame([Cur EXCEPT !.last = NoEvent], m, draws, tdraw),
                       draws[1], tdraw)} : Becomes(t, cap)

\* A click on one of the blocks of the board: onClick={() => toggleBlock(block)}.
ClickOn(blocks, rows, targets, cap) ==
  \E b \in blocks, draws \in rows, tdraw \in targets :
    /\ gameState # "menu"
    /\ \E t \in {settle(toggleBlock([Cur EXCEPT !.last = NoEvent], b.id),
                       draws, tdraw)} : Becomes(t, cap)

\* A changed effect: the interval runs through the pauses.
TickThroughPause(rows, targets, cap) ==
  \E draws \in rows, tdraw \in targets :
    /\ gameState = "playing" /\ mode = "time"
    /\ \E t \in {settle(tick([Cur EXCEPT !.last = NoEvent], draws),
                       draws, tdraw)} : Becomes(t, cap)

\* A changed effect: the interval runs in both modes.
TickAnyMode(rows, targets, cap) ==
  \E draws \in rows, tdraw \in targets :
    /\ gameState = "playing" /\ ~isPaused
    /\ \E t \in {settle(tick([Cur EXCEPT !.last = NoEvent], draws),
                       draws, tdraw)} : Becomes(t, cap)

\* One period of the interval the timer effect sets while the game is
\* played in time mode and not paused.
TickOf(rows, targets, cap) ==
  \E draws \in rows, tdraw \in targets :
    /\ gameState = "playing" /\ mode = "time" /\ ~isPaused
    /\ \E t \in {settle(tick([Cur EXCEPT !.last = NoEvent], draws),
                       draws, tdraw)} : Becomes(t, cap)

\* The pause button of the header: setIsPaused(!isPaused).
TogglePause ==
  /\ gameState # "menu"
  /\ Becomes([Cur EXCEPT !.isPaused = ~isPaused, !.last = NoEvent], MaxRowsLong)

\* RESUME in the pause overlay: setIsPaused(false).
Resume ==
  /\ gameState # "menu"
  /\ isPaused
  /\ Becomes([Cur EXCEPT !.isPaused = FALSE, !.last = NoEvent], MaxRowsLong)

\* The home button of the header, MAIN MENU in the game-over modal.
ReturnToMenu ==
  /\ gameState # "menu"
  /\ Becomes([Cur EXCEPT !.gameState = "menu", !.last = NoEvent], MaxRowsLong)

\* ---- Spec: both modes, the player clicks the blocks on ClickCells, pauses,
\* leaves and restarts, for as long as createRow is called MaxRows times.
StartGame == StartGameOf({"classic", "time"}, InitialDraws, TargetDraws, MaxRows)
Board == ShownOn(ClickCells)
Click == ClickOn(Board, RowDraws, TargetDraws, MaxRows)
Tick == TickOf(RowDraws, TargetDraws, MaxRows)

Next ==
  \/ StartGame
  \/ Click
  \/ Tick
  \/ TogglePause
  \/ Resume
  \/ ReturnToMenu

Spec == Init /\ [][Next]_vars

\* ---- SpecLong: games played to their end.  In classic mode the player
\* clicks the blocks on ClickCells, in time mode the bottom left one.
LongCells == IF mode = "classic" THEN ClickCells ELSE { <<GRID_ROWS - 1, 0>> }
StartLong == StartGameOf({"classic", "time"}, InitialDraws, TargetDraws, MaxRowsLong)
ClickLong == ClickOn(ShownOn(LongCells), RowDraws, TargetDraws, MaxRowsLong)
TickLong == TickOf(RowDraws, TargetDraws, MaxRowsLong)

NextLong ==
  \/ StartLong
  \/ ClickLong
  \/ TickLong
  \/ TogglePause
  \/ Resume
  \/ ReturnToMenu

SpecLong == Init /\ [][NextLong]_vars

\* ---- SpecTime: one time-mode game that is never paused or left and in
\* which no selection reaches the target.  The interval of the timer effect
\* fires as long as the game is played: weak fairness of the tick.  The
\* fairness condition names the tick by what it does to the countdown
\* (TimerFires: the setTimeLeft updater of the interval), which no other
\* step of SpecTime does.
StartTime == StartGameOf({"time"}, InitialDraws, TimeTargets, MaxRowsTime)
ClickTime == ClickOn(ShownOn(TimeCells), RowDraws, TimeTargets, MaxRowsTime)
TickTime == TickOf(RowDraws, TimeTargets, MaxRowsTime)

NextTime ==
  \/ StartTime
  \/ ClickTime
  \/ TickTime

TimerFires ==
  /\ gameState = "playing" /\ mode = "time" /\ ~isPaused
  /\ timeLeft' = IF timeLeft <= 1 THEN TIME_LIMIT ELSE timeLeft - 1

SpecTime == Init /\ [][NextTime]_vars /\ WF_timeLeft(TimerFires)

\* ---- SpecLevel: classic games in which the player clicks the blocks of
\* the bottom row, every match clearing the whole row.
BottomRow == { <<GRID_ROWS - 1, c>> : c \in 0..(GRID_COLS - 1) }
StartLevel ==
  StartGameOf({"classic"}, { <<LevelRow, LevelRow, LevelRow, LevelRow>> },
              LevelTargets, MaxRowsLevel)
ClickLevel == ClickOn(ShownOn(BottomRow), {LevelRow}, LevelTargets, MaxRowsLevel)

NextLevel ==
  \/ StartLevel
  \/ ClickLevel
  \/ TogglePause
  \/ Resume
  \/ ReturnToMenu

SpecLevel == Init /\ [][NextLevel]_vars

\* ---- SpecGone: classic games in which the player also clicks a tile that
\* the last match has cleared.  Its button stays mounted, with its onClick, while
\* AnimatePresence plays its exit animation.
Gone(g) == (0..(nextId - 1)) \ {b.id : b \in UNION {{g[r][i] : i \in DOMAIN g[r]} : r \in DOMAIN g}}
ClickGone ==
  \E id \in Gone(grid), draws \in RowDraws, tdraw \in TargetDraws :
    /\ gameState = "playing"
    /\ last.outcome = "success"
    /\ InSeq(id, last.before.selectedIds)
    /\ \E t \in {settle(toggleBlock([Cur EXCEPT !.last = NoEvent], id),
                       draws, tdraw)} : Becomes(t, MaxRows)

StartClassic == StartGameOf({"classic"}, InitialDraws, TargetDraws, MaxRows)

NextGone ==
  \/ StartClassic
  \/ Click
  \/ ClickGone
  \/ TogglePause
  \/ Resume
  \/ ReturnToMenu

SpecGone == Init /\ [][NextGone]_vars

\* ------------------------------------------------- stating the claims
\* The tiles of a grid, the ids of a selection.
Tiles(g) == UNION {{g[r][i] : i \in DOMAIN g[r]} : r \in DOMAIN g}
Ids(sel) == {sel[i] : i \in DOMAIN sel}

\* The sum of the values of the tiles of g that sel selects.
RECURSIVE PickedFrom(_, _, _, _)
PickedFrom(g, ids, r, i) ==
  IF r \notin DOMAIN g THEN 0
  ELSE IF i \notin DOMAIN g[r] THEN PickedFrom(g, ids, r + 1, 1)
  ELSE (IF g[r][i].id \in ids THEN g[r][i].value ELSE 0)
       + PickedFrom(g, ids, r, i + 1)
PickedSum(g, sel) == PickedFrom(g, Ids(sel), 0, 1)

\* The selection once the player has clicked the tile with this id.
After(sel, id) ==
  IF id \in Ids(sel) THEN SelectSeq(sel, LAMBDA x : x # id) ELSE Append(sel, id)

\* This step is a click on tile b, this step is a timer tick.
Clicked(b) == ClickOn({b}, RowDraws, TargetDraws, MaxRows)
Ticked == TickOf(RowDraws, TargetDraws, MaxRows)

\* The last event was a click whose selection the check-sum effect found to
\* match / to exceed the target; Before is the state it evaluated.
Succeeded == last.outcome = "success"
Overflowed == last.outcome = "overflow"
Before == last.before

\* C1: every selection that sums to the target (> 0) is evaluated (no state
\* between two events keeps one), and the evaluation adds exactly
\* target * (number of selected ids) to the score, with the target as it
\* was before it is regenerated.
C1_ScoreAward ==
  /\ target > 0 => PickedSum(grid, selectedIds) # target
  /\ Succeeded =>
       /\ Before.target > 0
       /\ PickedSum(Before.grid, Before.selectedIds) = Before.target
       /\ score = Before.score + Before.target * Len(Before.selectedIds)

\* Tiles of values 3 and 7 matched against target 10: the score is 20, and
\* the target that follows is another one.
C1_Witness ==
  /\ Succeeded
  /\ Before.target = 10 /\ target # 10
  /\ {b.value : b \in {x \in Tiles(Before.grid) : x.id \in Ids(Before.selectedIds)}} = {3, 7}
  /\ Len(Before.selectedIds) = 2
  /\ score = Before.score + 20

\* C3: while the game is played no tile is on row 0; when a row insertion
\* has brought a tile to row 0 the game is over; and when the game is over
\* row 0 holds a tile.
C3_GameOverDetection ==
  /\ gameState = "playing" =>
        /\ grid[0] = << >>
        /\ \A b \in Tiles(grid) : b.row > 0
  /\ (last.inserted > 0 /\ \E b \in Tiles(grid) : b.row = 0) =>
        gameState = "gameover"
  /\ gameState = "gameover" =>
        /\ grid[0] # << >>
        /\ \E b \in Tiles(grid) : b.row = 0

\* A classic-mode match whose row insertion ended the game.
C3_Witness ==
  /\ Succeeded /\ mode = "classic"
  /\ last.inserted = 1
  /\ gameState = "gameover"
  /\ \E b \in Tiles(grid) : b.row = 0

\* The cells occupied in a grid: the index of the row that holds the tile,
\* and the tile's column.
Cells(g) == UNION {{<<r, g[r][i].col>> : i \in DOMAIN g[r]} : r \in DOMAIN g}

\* The tiles the evaluated selection selects, and the others.
Picked == {b \in Tiles(Before.grid) : b.id \in Ids(Before.selectedIds)}
Survivors == Tiles(Before.grid) \ Picked

\* C2: after a successful evaluation no selected id is in the grid, every
\* other tile is still there with its id and value, and in every column the
\* occupied rows are a block that ends at the bottom row; in both modes, in
\* classic mode after the row insertion.
C2_ClearedAndSettled ==
  Succeeded =>
    /\ \A b \in Tiles(grid) : b.id \notin Ids(Before.selectedIds)
    /\ \A b \in Survivors : \E c \in Tiles(grid) : c.id = b.id /\ c.value = b.value
    /\ \A cell \in Cells(grid) :
         cell[1] < GRID_ROWS - 1 => <<cell[1] + 1, cell[2]>> \in Cells(grid)

\* A classic-mode match that removed a tile from the middle of a column:
\* tiles of that column stayed below it and above it.
C2_Witness ==
  /\ Succeeded /\ mode = "classic"
  /\ \E x \in Picked : \E lo, hi \in Survivors :
       /\ lo.col = x.col /\ hi.col = x.col
       /\ lo.row > x.row /\ hi.row < x.row

\* The row a surviving tile settles on: the bottom row, less the survivors
\* of its column below it.
SettledRow(b) ==
  GRID_ROWS - 1 - Cardinality({x \in Survivors : x.col = b.col /\ x.row > b.row})

\* The tiles of the grid that the evaluated grid did not hold.
Fresh == {b \in Tiles(grid) : \A x \in Tiles(Before.grid) : x.id # b.id}

\* C4: a successful match in classic mode inserts exactly one row (every
\* surviving tile is one row above its settled position, the bottom row
\* holds GRID_COLS fresh tiles, the tile count is old - k + GRID_COLS); in
\* time mode it inserts none, the tile count is old - k, and timeLeft is
\* TIME_LIMIT.
C4_ModeBranch ==
  Succeeded =>
    LET k == Len(Before.selectedIds)
        old == Cardinality(Tiles(Before.grid))
        now == Cardinality(Tiles(grid))
    IN IF mode = "classic"
       THEN /\ last.inserted = 1
            /\ \A b \in Survivors : \E c \in Tiles(grid) :
                 c.id = b.id /\ c.col = b.col /\ c.row = SettledRow(b) - 1
            /\ Cardinality(Fresh) = GRID_COLS
            /\ \A b \in Fresh : b.row = GRID_ROWS - 1
            /\ {b.col : b \in Fresh} = 0..(GRID_COLS - 1)
            /\ now = old - k + GRID_COLS
       ELSE /\ last.inserted = 0
            /\ \A b \in Survivors : \E c \in Tiles(grid) :
                 c.id = b.id /\ c.col = b.col /\ c.row = SettledRow(b)
            /\ Fresh = {}
            /\ now = old - k
            /\ timeLeft = TIME_LIMIT

\* A match in time mode made when the timer had run down to below its limit.
C4_Witness ==
  /\ Succeeded /\ mode = "time"
  /\ Before.timeLeft < TIME_LIMIT
  /\ Cardinality(Picked) = 2

\* C6: when the selected values sum to more than the target the selection is
\* cleared and score, grid, target, level and timeLeft stay as they were.
C6_OverflowOnlyClears ==
  Overflowed =>
    /\ PickedSum(Before.grid, Before.selectedIds) > Before.target
    /\ selectedIds = << >>
    /\ score = Before.score
    /\ grid = Before.grid
    /\ target = Before.target
    /\ level = Before.level
    /\ timeLeft = Before.timeLeft

\* A sum of 15 against target 10, in time mode with the timer running.
C6_Witness ==
  /\ Overflowed
  /\ PickedSum(Before.grid, Before.selectedIds) = 15
  /\ Before.target = 10
  /\ mode = "time" /\ timeLeft < TIME_LIMIT

\* grid2 is grid1 after one row insertion: every tile one row up with its
\* id, value and column, and GRID_COLS more tiles.
ShiftedOnce(grid1, grid2) ==
  /\ \A b \in Tiles(grid1) : [b EXCEPT !.row = b.row - 1] \in Tiles(grid2)
  /\ Cardinality(Tiles(grid2)) = Cardinality(Tiles(grid1)) + GRID_COLS

\* C5: a tick (time mode, playing, not paused) with the countdown at its
\* end inserts exactly one row and sets timeLeft to TIME_LIMIT; every other
\* tick takes 1 from timeLeft and leaves the grid as it is.  timeLeft stays
\* within 1..TIME_LIMIT, so that without a match the row comes with the
\* tick taken at timeLeft = 1, every TIME_LIMIT-th.
C5_TimerTick ==
  /\ [](timeLeft \in 1..TIME_LIMIT)
  /\ [][Ticked =>
          IF timeLeft = 1
          THEN /\ timeLeft' = TIME_LIMIT
               /\ last'.inserted = 1
               /\ ShiftedOnce(grid, grid')
          ELSE /\ timeLeft' = timeLeft - 1
               /\ last'.inserted = 0
               /\ grid' = grid]_vars

\* The timer has just inserted a row.
C5_Witness ==
  /\ mode = "time" /\ gameState = "playing"
  /\ last.outcome = "none" /\ last.inserted = 1
  /\ timeLeft = TIME_LIMIT
  /\ Cardinality(Tiles(grid)) = (INITIAL_ROWS + 1) * GRID_COLS

\* C8: the selection holds no id twice and only ids of tiles of the grid; a
\* timer tick, also one that inserts a row, leaves it as it is; it is empty
\* right after a success or an overflow.
C8_SelectionInGrid ==
  /\ [](/\ \A i, j \in DOMAIN selectedIds : selectedIds[i] = selectedIds[j] => i = j
        /\ \A id \in Ids(selectedIds) : \E b \in Tiles(grid) : b.id = id
        /\ (Succeeded \/ Overflowed) => selectedIds = << >>)
  /\ [][Ticked => selectedIds' = selectedIds]_vars

\* The timer has inserted a row under a selected tile: the tile is on the
\* row above the bottom one and still selected.
C8_Witness ==
  /\ last.outcome = "none" /\ last.inserted = 1
  /\ \E b \in Tiles(grid) :
       b.id \in Ids(selectedIds) /\ b.col = 0 /\ b.row = GRID_ROWS - 2

\* Everything but the selection (and the record of the last event).
others == <<gameState, mode, grid, target, score, level, timeLeft, isPaused,
            highScore, nextId>>

\* C9: a click on a tile changes state only when the game is played and not
\* paused: then the id joins the selection if absent and leaves it if
\* present (a second click on the same tile gives the same set of ids
\* back), and unless the check-sum effect evaluates the new selection
\* nothing else changes; otherwise (game over, menu, paused) the click
\* changes nothing.
C9_Toggle ==
  /\ [](\A b \in Board :
          /\ Ids(toggleIds(toggleIds(selectedIds, b.id), b.id)) = Ids(selectedIds)
          /\ (gameState # "playing" \/ isPaused) => toggleBlock(Cur, b.id) = Cur)
  /\ [][\A b \in Board :
          Clicked(b) =>
            IF gameState = "playing" /\ ~isPaused
            THEN last'.outcome = "none" =>
                   /\ Ids(selectedIds') = IF b.id \in Ids(selectedIds)
                                           THEN Ids(selectedIds) \ {b.id}
                                           ELSE Ids(selectedIds) \cup {b.id}
                   /\ Len(selectedIds') = IF b.id \in Ids(selectedIds)
                                           THEN Len(selectedIds) - 1
                                           ELSE Len(selectedIds) + 1
                   /\ UNCHANGED others
            ELSE UNCHANGED <<selectedIds, others>>]_vars

\* The game is paused with two tiles selected and clickable tiles on the
\* board: a click meets the pause.
C9_Witness ==
  /\ gameState = "playing" /\ isPaused
  /\ Len(selectedIds) = 2
  /\ Board # {}

\* C7: after a successful match whose award crosses at most one multiple of
\* 500, level = 1 + floor(score / 500): the match that brings the score
\* across level * 500 also raises the level.
C7_LevelTracksScore ==
  Succeeded =>
    (score \div 500 <= Before.score \div 500 + 1 => level = 1 + score \div 500)

\* C10: toggling an id that no tile of the grid has changes nothing, so the
\* selection holds ids of tiles only and a match awards the target times the
\* number of tiles selected.
C10_GoneToggleNoOp ==
  /\ \A id \in Gone(grid) : toggleBlock(Cur, id) = Cur
  /\ \A id \in Ids(selectedIds) : \E b \in Tiles(grid) : b.id = id
  /\ Succeeded => score = Before.score + Before.target * Cardinality(Picked)

\* A match of two tiles (3 and 7 against target 10) made with the id of a
\* cleared tile in the selection: 30 points instead of 20.
C10_Witness ==
  /\ Succeeded
  /\ Before.target = 10 /\ Cardinality(Picked) = 2
  /\ Len(Before.selectedIds) = 3
  /\ score = Before.score + 30

\* C11: when the game is over the high score is at least the score of the
\* round, the points of a match that ended the game included; and no step
\* (a new game and the return to the menu included) lowers the high score.
C11_HighScoreLatch ==
  /\ [](gameState = "gameover" => highScore >= score)
  /\ [][highScore' >= highScore]_vars

\* A classic game ended by a match: the high score is the score with the
\* points of that match.
C11_Witness ==
  /\ gameState = "gameover" /\ Succeeded
  /\ score = Before.score + Before.target * Len(Before.selectedIds)
  /\ highScore = score /\ score > 0

\* Rows of draws for the row addRow creates, the extreme values included.
ShiftDraws == RowDraws \cup { <<0, 0, 0, 0, 0, 0>>, <<8, 8, 8, 8, 8, 8>> }

\* C12: addRow, applied to any grid the game reaches, moves every tile of a
\* row r >= 1 to row r - 1 with its id, value and column; row 9 becomes
\* GRID_COLS tiles with new ids, one per column, values in 1..MAX_VALUE;
\* timeLeft becomes TIME_LIMIT; what row 0 held is no longer in the grid.
C12_InsertRowShift ==
  grid # << >> =>
    LET oldIds == {b.id : b \in Tiles(grid)} IN
    \A draws \in ShiftDraws :
      LET t == addRow(Cur, draws)
          bottom == t.grid[GRID_ROWS - 1]
      IN /\ DOMAIN t.grid = 0..(GRID_ROWS - 1)
         /\ \A r \in 1..(GRID_ROWS - 1) :
              t.grid[r - 1] = [i \in DOMAIN grid[r] |-> [grid[r][i] EXCEPT !.row = r - 1]]
         /\ Len(bottom) = GRID_COLS
         /\ \A c \in 1..GRID_COLS :
              /\ bottom[c].row = GRID_ROWS - 1 /\ bottom[c].col = c - 1
              /\ bottom[c].value \in 1..MAX_VALUE
              /\ bottom[c].id \notin oldIds
              /\ \A d \in 1..GRID_COLS : bottom[d].id = bottom[c].id => d = c
         /\ t.timeLeft = TIME_LIMIT
         /\ grid[0] # << >> =>
              \A i \in DOMAIN grid[0] : \A c \in Tiles(t.grid) : c.id # grid[0][i].id

\* An insertion has brought tiles to row 0 (the game is over): one more
\* application of addRow would overwrite them.
C12_Witness ==
  /\ last.inserted = 1
  /\ grid[0] # << >>
  /\ mode = "time" /\ timeLeft = TIME_LIMIT

\* This step starts a game.
Started == gameState # "playing" /\ gameState' = "playing"

\* C13: the game is over only after it was played; when it is over no click
\* and no tick changes grid, score, level, target, selection or timeLeft (no
\* tick is taken at all), and the game leaves this phase only with a new
\* game, which is then played, or to the menu.
C13_GameOverTerminal ==
  /\ [](gameState = "gameover" => ~ENABLED TickLong)
  /\ [][gameState' = "gameover" => gameState \in {"playing", "gameover"}]_vars
  /\ [][gameState = "gameover" =>
          \/ /\ gameState' \in {"gameover", "menu"}
             /\ UNCHANGED <<grid, score, level, target, selectedIds, timeLeft>>
          \/ /\ Started
             /\ mode' = mode /\ score' = 0 /\ selectedIds' = << >>]_vars

\* A time-mode game that ended with a tile selected: the tiles of the board
\* can still be clicked.
C13_Witness ==
  /\ gameState = "gameover" /\ mode = "time" /\ ~isPaused
  /\ selectedIds # << >>
  /\ ShownOn(LongCells) # {}

\* C14: no two tiles on one cell; every tile on a row 0..9 that is the index
\* of the grid row holding it, in a column 0..5, with a value 1..9; no id on
\* two tiles.
C14_GridWellFormed ==
  LET all == Flat(grid) IN
  /\ DOMAIN grid \subseteq 0..(GRID_ROWS - 1)
  /\ \A r \in DOMAIN grid : \A i \in DOMAIN grid[r] :
       /\ grid[r][i].row = r
       /\ grid[r][i].col \in 0..(GRID_COLS - 1)
       /\ grid[r][i].value \in 1..MAX_VALUE
  /\ Cardinality({all[i].id : i \in DOMAIN all}) = Len(all)
  /\ Cardinality({<<all[i].row, all[i].col>> : i \in DOMAIN all}) = Len(all)

\* After matches and insertions the grid has a row with gaps, above the
\* fifth row.
C14_Witness ==
  /\ gameState = "playing"
  /\ \E r \in DOMAIN grid :
       r < GRID_ROWS - INITIAL_ROWS - 1 /\ Len(grid[r]) \in 1..(GRID_COLS - 1)

\* The grid the gravity step of the last match produced, and the tile of it
\* with this id.
Fallen == removeAndFall(Before.grid, Before.selectedIds)
FallenTile(id) == CHOOSE c \in Tiles(Fallen) : c.id = id

\* C15: gravity leaves every surviving tile in its column; of two survivors
\* of a column the one that was higher is still higher; and a column with n
\* survivors occupies exactly its n bottom rows.
C15_GravityOrder ==
  Succeeded =>
    LET fallen == Tiles(Fallen)
        surv == Survivors
    IN /\ {c.id : c \in fallen} = {b.id : b \in surv}
       /\ \A b \in surv : \E c \in fallen :
            /\ c.id = b.id /\ c.col = b.col
            /\ \A x \in {y \in surv : y.col = b.col /\ y.row < b.row} :
                 \E d \in fallen : d.id = x.id /\ d.row < c.row
       /\ \A col \in 0..(GRID_COLS - 1) :
            LET n == Cardinality({b \in surv : b.col = col})
            IN {c.row : c \in {x \in fallen : x.col = col}}
                 = (GRID_ROWS - n)..(GRID_ROWS - 1)

\* A time-mode match that cleared a tile with two tiles of its column above
\* it: both fell by one row.
C15_Witness ==
  /\ Succeeded /\ mode = "time"
  /\ \E x \in Picked : \E hi, top \in Survivors :
       /\ hi.col = x.col /\ top.col = x.col
       /\ top.row < hi.row /\ hi.row < x.row
       /\ FallenTile(hi.id).row = hi.row + 1
       /\ FallenTile(top.id).row = top.row + 1

\* What a paused game keeps.
round == <<grid, selectedIds, score, target, level, timeLeft>>

\* C16: a tick is taken only while the game is played in time mode and not
\* paused; while the pause flag is set, every step leaves grid, selection,
\* score, target, level and timeLeft as they are, unless it starts a game.
C16_TickOnlyWhenRunning ==
  /\ []((gameState # "playing" \/ mode # "time" \/ isPaused) => ~ENABLED Tick)
  /\ [][isPaused => (UNCHANGED round \/ (Started /\ ~isPaused'))]_vars

\* A time-mode game paused in the middle of a countdown with a tile selected.
C16_Witness ==
  /\ gameState = "playing" /\ mode = "time" /\ isPaused
  /\ timeLeft \in 2..(TIME_LIMIT - 1)
  /\ Len(selectedIds) = 1

\* C18: addRow runs at most once in a transition and only on a grid whose
\* row 0 is empty (in a classic match: the grid the gravity step produced);
\* a tile leaves the grid only when a match clears it or a game starts.
C18_InsertNeverDiscards ==
  /\ [](last.inserted <= 1)
  /\ [](Succeeded /\ last.inserted = 1 => Fallen[0] = << >>)
  /\ [][last'.inserted >= 1 => grid # << >> /\ grid[0] = << >>]_vars
  /\ [][(grid' # grid /\ ~Started) =>
          LET left == {b.id : b \in Tiles(grid)} \ {c.id : c \in Tiles(grid')}
          IN left \subseteq (IF last'.outcome = "success"
                             THEN Ids(last'.before.selectedIds) ELSE {})]_vars

\* The fifth insertion of a game: the tiles of the top filled row have come
\* to row 1 and the game goes on.
C18_Witness ==
  /\ last.inserted = 1
  /\ gameState = "playing"
  /\ grid[1] # << >> /\ grid[0] = << >>

\* C20: while a classic game is played no tick is taken, and a step changes
\* the grid or timeLeft, or ends the game, only if it is a successful match.
C20_ClassicInsertsOnMatch ==
  /\ [](mode = "classic" => ~ENABLED TickLong)
  /\ [][(mode = "classic" /\ gameState = "playing") =>
          /\ last'.inserted >= 1 => last'.outcome = "success"
          /\ grid' # grid => last'.outcome = "success"
          /\ timeLeft' # timeLeft => last'.outcome = "success"
          /\ gameState' = "gameover" => last'.outcome = "success"]_vars

\* A classic game goes on after its third match: every insertion so far came
\* with a match.
C20_Witness ==
  /\ mode = "classic" /\ gameState = "playing"
  /\ Succeeded /\ last.inserted = 1
  /\ score >= 60
  /\ timeLeft = TIME_LIMIT

\* C19: 1 <= level <= 1 + floor(score / 500); the level changes only in a
\* successful match, by +1, or when startGame sets it to 1.
C19_LevelNotAhead ==
  /\ [](level >= 1 /\ level <= 1 + score \div 500)
  /\ [][level' # level =>
          \/ last'.outcome = "success" /\ level' = level + 1
          \/ Started /\ level' = 1]_vars

\* The match that raised the level to 2: the score had passed 500 with the
\* match before.
C19_Witness ==
  /\ Succeeded
  /\ level = 2 /\ Before.level = 1
  /\ Before.score > 500

\* The rows inserted since the game of SpecTime started, and the ticks taken:
\* createRow has made INITIAL_ROWS rows for startGame and one per insertion,
\* and only an insertion sets the countdown back.
Inserted == nextId \div GRID_COLS - INITIAL_ROWS
TicksTaken == Inserted * TIME_LIMIT + (TIME_LIMIT - timeLeft)

\* C17: a time-mode game without a match and without a pause, its timer
\* ticking, ends; it is played until the tick that makes the
\* (GRID_ROWS - INITIAL_ROWS)-th insertion, the 60th tick, and is over with
\* it.  A tick is always possible while the game is played (the bound on
\* createRow leaves room for it), and the steps that move the countdown are
\* the ticks.
C17_TimeModeEnds ==
  /\ (gameState = "playing") ~> (gameState = "gameover")
  /\ [](last.outcome # "success")
  /\ [](gameState = "playing" =>
          /\ nextId + GRID_COLS <= MaxRowsTime * GRID_COLS
          /\ Inserted < GRID_ROWS - INITIAL_ROWS
          /\ TicksTaken < (GRID_ROWS - INITIAL_ROWS) * TIME_LIMIT)
  /\ [](gameState = "gameover" => Inserted = 6 /\ TicksTaken = 60)
  /\ [][gameState = "playing" =>
          /\ TickTime <=> TimerFires
          /\ TicksTaken' = IF TickTime THEN TicksTaken + 1 ELSE TicksTaken
          /\ gameState' = "gameover" => TickTime /\ last'.inserted = 1]_vars

\* The game is over with the 60th tick; the player had selected tiles but
\* never reached the target.
C17_Witness ==
  /\ gameState = "gameover" /\ mode = "time"
  /\ TicksTaken = 60
  /\ selectedIds # << >>
  /\ score = 0

====
